---- MODULE Spec2Model ----
(***************************************************************************)
(* Token and TokenList of SQLiteStudio3/coreSQLiteStudio/parser/token.h.    *)
(*                                                                          *)
(* A token object lives in the token store `heap`; its identity (what a     *)
(* TokenPtr compares) is its index in the store, 0 is the null TokenPtr.    *)
(* A TokenList is a sequence of such identities.  Text (QString) is a       *)
(* sequence of one-character strings, positions in the query are 0-based.   *)
(***************************************************************************)
EXTENDS Integers, Sequences, FiniteSets, TLC

VARIABLES src, heap, list, edited, last, copy

vars == <<src, heap, list, edited, last, copy>>

(***************************************************************************)
(* Bounds of the model.                                                     *)
(***************************************************************************)
\* longest query string handed to the lexer
MaxSrcLen == 4
\* longest TokenList the operations may build
MaxLen == 3
\* greatest cursor position asked for
MaxPos == 9
\* most token objects made by constructor calls alone
MaxTokens == 3

(***************************************************************************)
(* Token::Type, with the numeric code of each enumerator, and the mask.     *)
(* OTHER and STRING are reserved words of TLA+: they are T_OTHER, T_STRING. *)
(***************************************************************************)
TOKEN_TYPE_MASK_DB_OBJECT == 4096

INVALID == 1
T_OTHER == 4098
T_STRING == 3
COMMENT == 4
FLOAT == 5
INTEGER == 6
BIND_PARAM == 7
OPERATOR == 8
PAR_LEFT == 9
PAR_RIGHT == 16
SPACE == 17
BLOB == 18
KEYWORD == 19
CTX_COLUMN == 4116
CTX_TABLE == 4117
CTX_DATABASE == 4118
CTX_FUNCTION == 23
CTX_COLLATION == 24
CTX_INDEX == 4121
CTX_TRIGGER == 4128
CTX_VIEW == 4129
CTX_JOIN_OPTS == 34
CTX_TABLE_NEW == 35
CTX_INDEX_NEW == 36
CTX_VIEW_NEW == 37
CTX_TRIGGER_NEW == 38
CTX_ALIAS == 39
CTX_TRANSACTION == 40
CTX_COLUMN_NEW == 41
CTX_COLUMN_TYPE == 48
CTX_CONSTRAINT == 49
CTX_FK_MATCH == 50
CTX_PRAGMA == 51
CTX_ROWID_KW == 52
CTX_NEW_KW == 53
CTX_OLD_KW == 54
CTX_ERROR_MESSAGE == 55

Type ==
    { INVALID, T_OTHER, T_STRING, COMMENT, FLOAT, INTEGER, BIND_PARAM, OPERATOR,
      PAR_LEFT, PAR_RIGHT, SPACE, BLOB, KEYWORD, CTX_COLUMN, CTX_TABLE,
      CTX_DATABASE, CTX_FUNCTION, CTX_COLLATION, CTX_INDEX, CTX_TRIGGER,
      CTX_VIEW, CTX_JOIN_OPTS, CTX_TABLE_NEW, CTX_INDEX_NEW, CTX_VIEW_NEW,
      CTX_TRIGGER_NEW, CTX_ALIAS, CTX_TRANSACTION, CTX_COLUMN_NEW,
      CTX_COLUMN_TYPE, CTX_CONSTRAINT, CTX_FK_MATCH, CTX_PRAGMA, CTX_ROWID_KW,
      CTX_NEW_KW, CTX_OLD_KW, CTX_ERROR_MESSAGE }

(***************************************************************************)
(* Token: its members and constructors.                                     *)
(***************************************************************************)
\* Token(int lemonType, Type type, QString value, qint64 start, qint64 end)
Token5(lemonType, type, value, start, end) ==
    [lemonType |-> lemonType, type |-> type, value |-> value,
     start |-> start, end |-> end]

\* Token(Type type, QString value, qint64 start, qint64 end)
Token4(type, value, start, end) == Token5(0, type, value, start, end)

\* Token(Type type, QString value): start/end positions are set to -1
Token2(type, value) == Token5(0, type, value, -1, -1)

\* Token(int lemonType, Type type, QString value): no position given
Token3(lemonType, type, value) == Token5(lemonType, type, value, -1, -1)

\* Token(QString value): type INVALID, start/end positions are set to -1
Token1(value) == Token5(0, INVALID, value, -1, -1)

\* a mutant of Token(): the positions are left at 0
MutToken0 == Token5(0, INVALID, << >>, 0, 0)

\* Token(): type INVALID, Lemon token ID 0, start/end positions -1
Token0 == Token5(0, INVALID, << >>, -1, -1)

\* a mutant of operator==: the Lemon token ID is compared too
MutEquals(t, other) ==
    IF /\ t.lemonType = other.lemonType
       /\ t.type = other.type
       /\ t.value = other.value
       /\ t.start = other.start
       /\ t.end = other.end
    THEN 1
    ELSE 0

\* int operator==(const Token& other): 1 if equal, 0 if different
equals(t, other) ==
    IF /\ t.type = other.type
       /\ t.value = other.value
       /\ t.start = other.start
       /\ t.end = other.end
    THEN 1
    ELSE 0

\* a mutant of operator<: the start alone is compared
MutLessThan(t, other) == t.start < other.start

\* bool operator<(const Token& other) const
lessThan(t, other) ==
    IF t.start = other.start THEN t.end < other.end ELSE t.start < other.start

\* bit test of a type code against a one-bit mask: (code & mask) == mask
HasMask(code, mask) == (code \div mask) % 2 = 1

\* a mutant of isWhitespace(): a comment is not white space
MutIsWhitespace(t) == t.type = SPACE

\* Token::isWhitespace(): white space, and from SQL perspective also comments
isWhitespace(t) == t.type = SPACE \/ t.type = COMMENT

\* a mutant of isDbObjectType(): the mask written 0x0010 for 0x1000
MutIsDbObjectType(t) == HasMask(t.type, 16)

\* Token::isDbObjectType(): the type tested against TOKEN_TYPE_MASK_DB_OBJECT
isDbObjectType(t) == HasMask(t.type, TOKEN_TYPE_MASK_DB_OBJECT)

(***************************************************************************)
(* The lexer, as far as the token model fixes it: the tokens cover the      *)
(* query with no gap, a string token's value is stripped of its surrounding *)
(* quotes while its span covers them, a comment's value keeps its markers.  *)
(* The alphabet is a letter, a blank, a comma, a quote and a dash.          *)
(***************************************************************************)
Char == {"a", " ", ",", "'", "-"}

RECURSIVE Strings(_)
Strings(n) ==
    IF n = 0 THEN {<< >>}
    ELSE LET shorter == Strings(n - 1)
         IN  shorter \cup {s \o <<c>> : s \in {x \in shorter : Len(x) = n - 1}, c \in Char}

\* 1-based index of the last element of the run of c that starts at s[i]
RECURSIVE RunEnd(_, _, _)
RunEnd(s, i, c) ==
    IF i < Len(s) /\ s[i + 1] = c THEN RunEnd(s, i + 1, c) ELSE i

\* 1-based index of the quote closing the string whose content starts at
\* s[i], 0 when the string is not closed; a doubled quote is content
RECURSIVE StringEnd(_, _)
StringEnd(s, i) ==
    IF i > Len(s) THEN 0
    ELSE IF s[i] # "'" THEN StringEnd(s, i + 1)
    ELSE IF i < Len(s) /\ s[i + 1] = "'" THEN StringEnd(s, i + 2)
    ELSE i

\* the token that starts at s[i] (1-based); its span is 0-based, inclusive
TokenAt(s, i) ==
    LET c == s[i]
        run == RunEnd(s, i, c)
        close == StringEnd(s, i + 1)
    IN  IF c = " " THEN Token4(SPACE, SubSeq(s, i, run), i - 1, run - 1)
        ELSE IF c = "a" THEN Token4(T_OTHER, SubSeq(s, i, run), i - 1, run - 1)
        ELSE IF c = "," THEN Token4(OPERATOR, <<c>>, i - 1, i - 1)
        ELSE IF c = "-" THEN
            IF i < Len(s) /\ s[i + 1] = "-"
            THEN Token4(COMMENT, SubSeq(s, i, Len(s)), i - 1, Len(s) - 1)
            ELSE Token4(OPERATOR, <<c>>, i - 1, i - 1)
        ELSE IF close = 0
            THEN Token4(INVALID, SubSeq(s, i, Len(s)), i - 1, Len(s) - 1)
            ELSE Token4(T_STRING, SubSeq(s, i + 1, close - 1), i - 1, close - 1)

RECURSIVE LexFrom(_, _)
LexFrom(s, i) ==
    IF i > Len(s) THEN << >>
    ELSE LET t == TokenAt(s, i) IN <<t>> \o LexFrom(s, t.end + 2)

\* Lexer::tokenize(): the tokens of the query, in order
Lex(s) == LexFrom(s, 1)

\* a mutant of the surface form: the verbatim value, also for a string
MutSurface(t) == t.value

\* the lexical surface form of one token: a string gets its quotes back
Surface(t) == IF t.type = T_STRING THEN <<"'">> \o t.value \o <<"'">> ELSE t.value

RECURSIVE DetokenizeFrom(_, _, _)
DetokenizeFrom(h, l, i) ==
    IF i > Len(l) THEN << >>
    ELSE Surface(h[l[i]]) \o DetokenizeFrom(h, l, i + 1)

\* TokenList::detokenize(): Lexer::detokenize() on the list
detokenize(h, l) == DetokenizeFrom(h, l, 1)

(***************************************************************************)
(* TokenList: the search helpers and the operations, each an operator from  *)
(* the list (and its arguments) to the new list and the returned value.     *)
(***************************************************************************)
RECURSIVE IndexFrom(_, _, _)
IndexFrom(l, token, i) ==
    IF i >= Len(l) THEN -1
    ELSE IF l[i + 1] = token THEN i
    ELSE IndexFrom(l, token, i + 1)

\* a mutant of indexOf(TokenPtr): the tokens are compared with operator==,
\* not the pointers to them
MutIndexOf(l, token) ==
    LET S == {i \in 0..(Len(l) - 1) : equals(heap[l[i + 1]], heap[token]) = 1}
    IN  IF S = {} THEN -1 ELSE CHOOSE i \in S : \A j \in S : i <= j

\* indexOf(TokenPtr): index of the first occurrence of the token, or -1
indexOf(l, token) == IndexFrom(l, token, 0)

RECURSIVE TypeIndexFrom(_, _, _, _)
TypeIndexFrom(h, l, type, i) ==
    IF i >= Len(l) THEN -1
    ELSE IF h[l[i + 1]].type = type THEN i
    ELSE TypeIndexFrom(h, l, type, i + 1)

\* a mutant of indexOf(Token::Type): the last occurrence instead of the first
RECURSIVE MutIndexOfType(_, _, _)
MutIndexOfType(h, l, type) ==
    IF Len(l) = 0 THEN -1
    ELSE IF h[l[Len(l)]].type = type THEN Len(l) - 1
    ELSE MutIndexOfType(h, SubSeq(l, 1, Len(l) - 1), type)

\* indexOf(Token::Type): index of the first token with the type, or -1
indexOfType(h, l, type) == TypeIndexFrom(h, l, type, 0)

\* insert(int i, TokenPtr token)
insert(l, i, token) == SubSeq(l, 1, i) \o <<token>> \o SubSeq(l, i + 1, Len(l))

\* a mutant of the index-based replace: the token after the range goes too
MutReplaceAt(l, startIdx, length, newTokens) ==
    SubSeq(l, 1, startIdx) \o newTokens \o SubSeq(l, startIdx + length + 2, Len(l))

\* replace(int startIdx, int length, const TokenList& newTokens)
replaceAt(l, startIdx, length, newTokens) ==
    SubSeq(l, 1, startIdx) \o newTokens \o SubSeq(l, startIdx + length + 1, Len(l))

\* the order test of replace(startToken, endToken, ...) on the two indexes
rangeInOrder(startIdx, endIdx) == startIdx <= endIdx

\* replace(TokenPtr startToken, TokenPtr endToken, const TokenList& newTokens)
replaceRange(l, startToken, endToken, newTokens) ==
    LET startIdx == indexOf(l, startToken)
        endIdx == indexOf(l, endToken)
        length == endIdx - startIdx + 1
    IN  IF startIdx < 0 THEN [list |-> l, ret |-> 0]
        ELSE IF endIdx < 0 THEN [list |-> l, ret |-> 0]
        ELSE IF ~rangeInOrder(startIdx, endIdx) THEN [list |-> l, ret |-> 0]
        ELSE [list |-> replaceAt(l, startIdx, length, newTokens), ret |-> length]

\* replace(TokenPtr startToken, TokenPtr endToken, TokenPtr newToken)
replaceRangeToken(l, startToken, endToken, newToken) ==
    replaceRange(l, startToken, endToken, <<newToken>>)

\* replace(TokenPtr oldToken, const TokenList& newTokens)
replaceToken(l, oldToken, newTokens) ==
    LET idx == indexOf(l, oldToken)
    IN  IF idx < 0 THEN [list |-> l, ret |-> FALSE]
        ELSE [list |-> replaceAt(l, idx, 1, newTokens), ret |-> TRUE]

\* a mutant of remove(startToken, endToken): a token that is not found
\* counts as the end of the list it should be at
MutRemoveRange(l, startToken, endToken) ==
    LET startIdx == IF indexOf(l, startToken) < 0 THEN 0 ELSE indexOf(l, startToken)
        endIdx == IF indexOf(l, endToken) < 0 THEN Len(l) - 1 ELSE indexOf(l, endToken)
    IN  IF endIdx < startIdx THEN [list |-> l, ret |-> FALSE]
        ELSE [list |-> SubSeq(l, 1, startIdx) \o SubSeq(l, endIdx + 2, Len(l)),
              ret |-> TRUE]

\* a mutant of remove(startToken, endToken): the order of the two tokens is
\* not tested, the range is taken between them either way
MutRemoveRangeOrder(l, startToken, endToken) ==
    LET startIdx == indexOf(l, startToken)
        endIdx == indexOf(l, endToken)
        lo == IF startIdx <= endIdx THEN startIdx ELSE endIdx
        hi == IF startIdx <= endIdx THEN endIdx ELSE startIdx
    IN  IF startIdx < 0 THEN [list |-> l, ret |-> FALSE]
        ELSE IF endIdx < 0 THEN [list |-> l, ret |-> FALSE]
        ELSE [list |-> SubSeq(l, 1, lo) \o SubSeq(l, hi + 2, Len(l)), ret |-> TRUE]

\* remove(TokenPtr startToken, TokenPtr endToken)
removeRange(l, startToken, endToken) ==
    LET startIdx == indexOf(l, startToken)
        endIdx == indexOf(l, endToken)
    IN  IF startIdx < 0 THEN [list |-> l, ret |-> FALSE]
        ELSE IF endIdx < 0 THEN [list |-> l, ret |-> FALSE]
        ELSE IF endIdx < startIdx THEN [list |-> l, ret |-> FALSE]
        ELSE [list |-> SubSeq(l, 1, startIdx) \o SubSeq(l, endIdx + 2, Len(l)),
              ret |-> TRUE]

\* remove(Token::Type type)
removeType(h, l, type) ==
    LET idx == indexOfType(h, l, type)
    IN  IF idx < 0 THEN [list |-> l, ret |-> FALSE]
        ELSE [list |-> SubSeq(l, 1, idx) \o SubSeq(l, idx + 2, Len(l)), ret |-> TRUE]

\* trimLeft()
RECURSIVE trimLeft(_, _)
trimLeft(h, l) ==
    IF Len(l) > 0 /\ isWhitespace(h[l[1]]) THEN trimLeft(h, Tail(l)) ELSE l

\* trimRight()
RECURSIVE trimRight(_, _)
trimRight(h, l) ==
    IF Len(l) > 0 /\ isWhitespace(h[l[Len(l)]])
    THEN trimRight(h, SubSeq(l, 1, Len(l) - 1))
    ELSE l

\* trim()
trim(h, l) == trimRight(h, trimLeft(h, l))

\* what the extended trims take off an end: white space, and tokens of the
\* given type that have the given value
alsoTrimmed(t, type, alsoTrim) ==
    isWhitespace(t) \/ (t.type = type /\ t.value = alsoTrim)

\* a mutant of trimLeft(type, alsoTrim): the white space, then one token
MutTrimLeftExt(h, l, type, alsoTrim) ==
    LET w == trimLeft(h, l)
    IN  IF Len(w) > 0 /\ h[w[1]].type = type /\ h[w[1]].value = alsoTrim
        THEN Tail(w)
        ELSE w

\* trimLeft(Token::Type type, const QString& alsoTrim)
RECURSIVE trimLeftExt(_, _, _, _)
trimLeftExt(h, l, type, alsoTrim) ==
    IF Len(l) > 0 /\ alsoTrimmed(h[l[1]], type, alsoTrim)
    THEN trimLeftExt(h, Tail(l), type, alsoTrim)
    ELSE l

\* trimRight(Token::Type type, const QString& alsoTrim)
RECURSIVE trimRightExt(_, _, _, _)
trimRightExt(h, l, type, alsoTrim) ==
    IF Len(l) > 0 /\ alsoTrimmed(h[l[Len(l)]], type, alsoTrim)
    THEN trimRightExt(h, SubSeq(l, 1, Len(l) - 1), type, alsoTrim)
    ELSE l

\* trim(Token::Type type, const QString& alsoTrim)
trimExt(h, l, type, alsoTrim) ==
    trimRightExt(h, trimLeftExt(h, l, type, alsoTrim), type, alsoTrim)

\* filter(Token::Type type)
RECURSIVE filter(_, _, _)
filter(h, l, type) ==
    IF Len(l) = 0 THEN << >>
    ELSE (IF h[l[1]].type = type THEN <<l[1]>> ELSE << >>) \o filter(h, Tail(l), type)

\* a mutant of filterWhiteSpaces(): the test of isWhitespace() not negated
RECURSIVE MutFilterWhiteSpaces(_, _)
MutFilterWhiteSpaces(h, l) ==
    IF Len(l) = 0 THEN << >>
    ELSE (IF isWhitespace(h[l[1]]) THEN <<l[1]>> ELSE << >>)
         \o MutFilterWhiteSpaces(h, Tail(l))

\* filterWhiteSpaces(): lets through only tokens that are not a whitespace
RECURSIVE filterWhiteSpaces(_, _)
filterWhiteSpaces(h, l) ==
    IF Len(l) = 0 THEN << >>
    ELSE (IF ~isWhitespace(h[l[1]]) THEN <<l[1]>> ELSE << >>)
         \o filterWhiteSpaces(h, Tail(l))

\* whether the token's range [start, end] covers the position
covers(t, cursorPosition) == t.start <= cursorPosition /\ cursorPosition <= t.end

\* a mutant of atCursorPosition(): the end of the range is not part of it
RECURSIVE MutAtCursorPosition(_, _, _)
MutAtCursorPosition(h, l, cursorPosition) ==
    IF Len(l) = 0 THEN 0
    ELSE IF h[l[1]].start <= cursorPosition /\ cursorPosition < h[l[1]].end THEN l[1]
    ELSE MutAtCursorPosition(h, Tail(l), cursorPosition)

\* atCursorPosition(quint64 cursorPosition): the token found, or null
RECURSIVE atCursorPosition(_, _, _)
atCursorPosition(h, l, cursorPosition) ==
    IF Len(l) = 0 THEN 0
    ELSE IF covers(h[l[1]], cursorPosition) THEN l[1]
    ELSE atCursorPosition(h, Tail(l), cursorPosition)

\* a mutant of mid(): the length is taken for the position to stop at
MutMid(l, pos, length) ==
    IF length = -1 THEN SubSeq(l, pos + 1, Len(l)) ELSE SubSeq(l, pos + 1, length)

\* mid(int pos, int length = -1): length tokens from pos, all to the end if -1
mid(l, pos, length) ==
    IF length = -1 THEN SubSeq(l, pos + 1, Len(l)) ELSE SubSeq(l, pos + 1, pos + length)

(***************************************************************************)
(* Lookups by criterion.  The three overloads of a lookup differ in what    *)
(* they compare: the type, the type and the value, or the value; a          *)
(* criterion holds the arguments of one of them.                            *)
(***************************************************************************)
\* QChar::toLower() on the letters of the model
toLower(c) == IF c = "A" THEN "a" ELSE c

toLowerAll(value) == [i \in 1..Len(value) |-> toLower(value[i])]

\* the value lookup under Qt::CaseSensitive / Qt::CaseInsensitive
sameValue(value, other, caseSensitivity) ==
    IF caseSensitivity = "CaseSensitive"
    THEN value = other
    ELSE toLowerAll(value) = toLowerAll(other)

\* arguments (Token::Type type)
byType(type) ==
    [by |-> "type", type |-> type, value |-> << >>,
     caseSensitivity |-> "CaseSensitive"]

\* arguments (Token::Type type, const QString& value, Qt::CaseSensitivity)
byTypeValue(type, value, caseSensitivity) ==
    [by |-> "typeValue", type |-> type, value |-> value,
     caseSensitivity |-> caseSensitivity]

\* arguments (const QString& value, Qt::CaseSensitivity)
byValue(value, caseSensitivity) ==
    [by |-> "value", type |-> 0, value |-> value,
     caseSensitivity |-> caseSensitivity]

\* no criterion: the call has other arguments
NoCriterion ==
    [by |-> "none", type |-> 0, value |-> << >>, caseSensitivity |-> "CaseSensitive"]

\* does the token meet the criterion
matches(t, c) ==
    /\ c.by \in {"type", "typeValue"} => t.type = c.type
    /\ c.by \in {"typeValue", "value"} => sameValue(t.value, c.value, c.caseSensitivity)

\* the result of a private find: the token found or null, and what *idx gets
NotFound == [token |-> 0, idx |-> -1]

RECURSIVE FirstFrom(_, _, _, _)
FirstFrom(h, l, c, i) ==
    IF i > Len(l) THEN NotFound
    ELSE IF matches(h[l[i]], c) THEN [token |-> l[i], idx |-> i - 1]
    ELSE FirstFrom(h, l, c, i + 1)

RECURSIVE LastFrom(_, _, _, _)
LastFrom(h, l, c, i) ==
    IF i < 1 THEN NotFound
    ELSE IF matches(h[l[i]], c) THEN [token |-> l[i], idx |-> i - 1]
    ELSE LastFrom(h, l, c, i - 1)

\* private findFirst(..., int* idx): first occurrence
findFirst(h, l, c) == FirstFrom(h, l, c, 1)

\* a mutant of the private findLast(): the list is searched from its front
MutFindLast(h, l, c) == FirstFrom(h, l, c, 1)

\* private findLast(..., int* idx): last occurrence
findLast(h, l, c) == LastFrom(h, l, c, Len(l))

\* indexOf(type) / indexOf(type, value, cs) / indexOf(value, cs)
indexOfBy(h, l, c) == findFirst(h, l, c).idx

\* lastIndexOf(type) / lastIndexOf(type, value, cs) / lastIndexOf(value, cs)
lastIndexOfBy(h, l, c) == findLast(h, l, c).idx

\* find(type) / find(type, value, cs) / find(value, cs)
find(h, l, c) == findFirst(h, l, c).token

\* findLast(type) / findLast(type, value, cs) / findLast(value, cs), public
findLastBy(h, l, c) == findLast(h, l, c).token

(***************************************************************************)
(* The state machine.  src is the query, heap the token objects made so     *)
(* far, list the TokenList worked on, edited whether a mutating operation   *)
(* was applied to it since it was lexed, and last the record of the call    *)
(* that has just returned: the operation, the list it was called on, its    *)
(* arguments and what it returned (NoCall between two calls).  copy is a    *)
(* second TokenList, assigned from what mid() or a filter returned.         *)
(***************************************************************************)
\* the query of the editing session: a name [0,2], blanks [3,5], a comment [6,7]
QuerySrc == <<"a", "a", "a", " ", " ", " ", "-", "-">>

\* tokens made by a rewriting pass: two distinct objects of equal content
Synthetic ==
    <<Token2(OPERATOR, <<",">>), Token2(OPERATOR, <<",">>), Token2(OPERATOR, <<",">>)>>

Ids == 1..Len(heap)

\* the arguments the calls are tried with
NewTokens == {4, 3}
NewLists == {<< >>, <<5>>, <<4, 2>>}
ArgTypes == {SPACE, COMMENT, OPERATOR, T_OTHER, KEYWORD}
TrimTypes == {OPERATOR, T_OTHER}
TrimValues == {<<",">>, <<"a", "a", "a">>}
FindTypes == {OPERATOR, T_OTHER, KEYWORD}
FindValues == {<<",">>, <<"A", "A", "A">>}
CaseSensitivity == {"CaseSensitive", "CaseInsensitive"}
\* the arguments of a lookup, over its three overloads
Criteria ==
    {byType(type) : type \in FindTypes}
    \cup {byTypeValue(type, value, cs) :
              type \in {OPERATOR, T_OTHER}, value \in FindValues, cs \in CaseSensitivity}
    \cup {byValue(value, cs) : value \in FindValues, cs \in CaseSensitivity}

\* the record of a call: the operation, the list it was called on, its
\* integer arguments (indexes, token objects, types, positions), its list
\* argument, its text argument, and what it returned: a number or a token
\* (ret), a truth value (ok), a list (out) or a text (text)
NoCall ==
    [op |-> "none", old |-> << >>, a |-> << >>, l |-> << >>, v |-> << >>,
     ret |-> 0, ok |-> FALSE, out |-> << >>, text |-> << >>, c |-> NoCriterion]

Call(op, a, l, v) == [NoCall EXCEPT !.op = op, !.old = list, !.a = a, !.l = l, !.v = v]

\* a list as the lexer hands it over: every token object once, in order
Lexed(h) == [i \in 1..Len(h) |-> i]

Init ==
    /\ src = QuerySrc
    /\ heap = Lex(QuerySrc) \o Synthetic
    /\ list = Lexed(Lex(QuerySrc))
    /\ edited = FALSE
    /\ copy = << >>
    /\ last = NoCall

InitLex ==
    /\ src \in Strings(MaxSrcLen)
    /\ heap = Lex(src)
    /\ list = Lexed(heap)
    /\ edited = FALSE
    /\ copy = << >>
    /\ last = NoCall

\* a mutating call: the list becomes l, the call record is kept
\* a mutant of the call of a non-const member: a copy equal to the list
\* still shares its storage and changes with it
MutMutate(l, call) ==
    /\ last.op = "none"
    /\ Len(l) <= MaxLen
    /\ list' = l
    /\ copy' = IF copy = list THEN l ELSE copy
    /\ edited' = TRUE
    /\ last' = call
    /\ UNCHANGED <<src, heap>>

Mutate(l, call) ==
    /\ last.op = "none"
    /\ Len(l) <= MaxLen
    /\ list' = l
    /\ edited' = TRUE
    /\ last' = call
    /\ UNCHANGED <<src, heap, copy>>

\* copy = list.<const member returning a TokenList>(...), on the lexed list
Assign(l, call) ==
    /\ last.op = "none"
    /\ edited = FALSE
    /\ copy' = l
    /\ last' = [call EXCEPT !.out = l]
    /\ UNCHANGED <<src, heap, list, edited>>

\* a call of a const member function
Query(call) ==
    /\ last.op = "none"
    /\ last' = call
    /\ UNCHANGED <<src, heap, list, edited, copy>>

Insert ==
    \E i \in 0..Len(list), token \in Ids :
        Mutate(insert(list, i, token), Call("insert", <<i, token>>, << >>, << >>))

ReplaceAt ==
    \E startIdx \in 0..Len(list), newTokens \in NewLists :
        \E length \in 0..(Len(list) - startIdx) :
            Mutate(replaceAt(list, startIdx, length, newTokens),
                   Call("replaceAt", <<startIdx, length>>, newTokens, << >>))

ReplaceRange ==
    \E startToken \in Ids, endToken \in Ids, newTokens \in NewLists :
        LET r == replaceRange(list, startToken, endToken, newTokens)
            call == Call("replaceRange", <<startToken, endToken>>, newTokens, << >>)
        IN  Mutate(r.list, [call EXCEPT !.ret = r.ret])

ReplaceRangeToken ==
    \E startToken \in Ids, endToken \in Ids, newToken \in NewTokens :
        LET r == replaceRangeToken(list, startToken, endToken, newToken)
            call == Call("replaceRangeToken", <<startToken, endToken, newToken>>,
                         << >>, << >>)
        IN  Mutate(r.list, [call EXCEPT !.ret = r.ret])

ReplaceToken ==
    \E oldToken \in Ids, newTokens \in NewLists \cup {<<t>> : t \in NewTokens} :
        LET r == replaceToken(list, oldToken, newTokens)
            call == Call("replaceToken", <<oldToken>>, newTokens, << >>)
        IN  Mutate(r.list, [call EXCEPT !.ok = r.ret])

RemoveRange ==
    \E startToken \in Ids, endToken \in Ids :
        LET r == removeRange(list, startToken, endToken)
            call == Call("removeRange", <<startToken, endToken>>, << >>, << >>)
        IN  Mutate(r.list, [call EXCEPT !.ok = r.ret])

RemoveType ==
    \E type \in ArgTypes :
        LET r == removeType(heap, list, type)
            call == Call("removeType", <<type>>, << >>, << >>)
        IN  Mutate(r.list, [call EXCEPT !.ok = r.ret])

TrimLeft == Mutate(trimLeft(heap, list), Call("trimLeft", << >>, << >>, << >>))

TrimRight == Mutate(trimRight(heap, list), Call("trimRight", << >>, << >>, << >>))

Trim == Mutate(trim(heap, list), Call("trim", << >>, << >>, << >>))

TrimLeftExt ==
    \E type \in TrimTypes, alsoTrim \in TrimValues :
        Mutate(trimLeftExt(heap, list, type, alsoTrim),
               Call("trimLeftExt", <<type>>, << >>, alsoTrim))

TrimRightExt ==
    \E type \in TrimTypes, alsoTrim \in TrimValues :
        Mutate(trimRightExt(heap, list, type, alsoTrim),
               Call("trimRightExt", <<type>>, << >>, alsoTrim))

TrimExt ==
    \E type \in TrimTypes, alsoTrim \in TrimValues :
        Mutate(trimExt(heap, list, type, alsoTrim),
               Call("trimExt", <<type>>, << >>, alsoTrim))

Filter ==
    \E type \in ArgTypes :
        Query([Call("filter", <<type>>, << >>, << >>)
                   EXCEPT !.out = filter(heap, list, type)])

FilterWhiteSpaces ==
    Query([Call("filterWhiteSpaces", << >>, << >>, << >>)
               EXCEPT !.out = filterWhiteSpaces(heap, list)])

AtCursorPosition ==
    \E cursorPosition \in 0..MaxPos :
        Query([Call("atCursorPosition", <<cursorPosition>>, << >>, << >>)
                   EXCEPT !.ret = atCursorPosition(heap, list, cursorPosition)])

Detokenize ==
    Query([Call("detokenize", << >>, << >>, << >>)
               EXCEPT !.text = detokenize(heap, list)])

\* isDbObjectType() of a token made with Token(Type type, QString value)
IsDbObjectType ==
    \E type \in Type :
        Query([Call("isDbObjectType", <<type>>, << >>, << >>)
                   EXCEPT !.ok = isDbObjectType(Token2(type, << >>))])

\* the caller takes the returned value and goes on with the list
IndexOfToken ==
    \E token \in Ids :
        Query([Call("indexOfToken", <<token>>, << >>, << >>)
                   EXCEPT !.ret = indexOf(list, token)])

Mid ==
    \E pos \in 0..Len(list) :
        \E length \in -1..(Len(list) - pos) :
            Query([Call("mid", <<pos, length>>, << >>, << >>)
                       EXCEPT !.out = mid(list, pos, length)])

IndexOfBy ==
    \E c \in Criteria :
        Query([Call("indexOf", << >>, << >>, << >>)
                   EXCEPT !.c = c, !.ret = indexOfBy(heap, list, c)])

LastIndexOfBy ==
    \E c \in Criteria :
        Query([Call("lastIndexOf", << >>, << >>, << >>)
                   EXCEPT !.c = c, !.ret = lastIndexOfBy(heap, list, c)])

Find ==
    \E c \in Criteria :
        Query([Call("find", << >>, << >>, << >>)
                   EXCEPT !.c = c, !.ret = find(heap, list, c)])

FindLast ==
    \E c \in Criteria :
        Query([Call("findLast", << >>, << >>, << >>)
                   EXCEPT !.c = c, !.ret = findLastBy(heap, list, c)])

Return ==
    /\ last.op # "none"
    /\ last' = NoCall
    /\ UNCHANGED <<src, heap, list, edited, copy>>

Next ==
    \/ Return
    \/ Insert
    \/ ReplaceAt
    \/ ReplaceRange
    \/ ReplaceRangeToken
    \/ ReplaceToken
    \/ RemoveRange
    \/ RemoveType
    \/ TrimLeft
    \/ TrimRight
    \/ Trim
    \/ TrimLeftExt
    \/ TrimRightExt
    \/ TrimExt
    \/ Filter
    \/ FilterWhiteSpaces
    \/ AtCursorPosition
    \/ Detokenize
    \/ IsDbObjectType
    \/ IndexOfToken
    \/ Mid
    \/ IndexOfBy
    \/ LastIndexOfBy
    \/ Find
    \/ FindLast

Spec == Init /\ [][Next]_vars

\* lexing any query, then reading the text back, with or without an edit
NextLex ==
    \/ Return
    \/ Detokenize
    \/ RemoveType
    \/ Trim

SpecLex == InitLex /\ [][NextLex]_vars

(***************************************************************************)
(* Two lists that share token objects: copy is taken from the lexed list    *)
(* with mid() or a filter, then the list is edited.                         *)
(***************************************************************************)
AssignMid ==
    \E pos \in 0..Len(list) :
        \E length \in -1..(Len(list) - pos) :
            Assign(mid(list, pos, length), Call("mid", <<pos, length>>, << >>, << >>))

AssignFilter ==
    \E type \in ArgTypes :
        Assign(filter(heap, list, type), Call("filter", <<type>>, << >>, << >>))

AssignFilterWhiteSpaces ==
    Assign(filterWhiteSpaces(heap, list), Call("filterWhiteSpaces", << >>, << >>, << >>))

NextShare ==
    \/ Return
    \/ AssignMid
    \/ AssignFilter
    \/ AssignFilterWhiteSpaces
    \/ Insert
    \/ ReplaceToken
    \/ RemoveType
    \/ Trim

SpecShare == Init /\ [][NextShare]_vars

(***************************************************************************)
(* Tokens on their own: objects made by the constructors, then compared.    *)
(* A position handed to a constructor is what token.h says it is: the index *)
(* of the first and of the last character of the token in the query.        *)
(***************************************************************************)
CtorLemonTypes == {7}
CtorTypes == {OPERATOR, T_OTHER}
CtorValues == {<<",">>, <<"a">>}
CtorSpans == {<<0, 0>>, <<0, 1>>, <<1, 1>>}

InitToken ==
    /\ src = << >>
    /\ heap = << >>
    /\ list = << >>
    /\ edited = FALSE
    /\ copy = << >>
    /\ last = NoCall

\* a constructor call: one more token object, ret is its identity
Construct(op, token) ==
    /\ last.op = "none"
    /\ Len(heap) < MaxTokens
    /\ heap' = Append(heap, token)
    /\ last' = [Call(op, << >>, << >>, << >>) EXCEPT !.ret = Len(heap) + 1]
    /\ UNCHANGED <<src, list, edited, copy>>

NewToken0 == Construct("Token0", Token0)

NewToken1 == \E value \in {<<",">>} : Construct("Token1", Token1(value))

NewToken2 ==
    \E type \in {OPERATOR}, value \in CtorValues :
        Construct("Token2", Token2(type, value))

NewToken3 ==
    \E lemonType \in CtorLemonTypes, type \in {OPERATOR}, value \in {<<",">>} :
        Construct("Token3", Token3(lemonType, type, value))

NewToken4 ==
    \E type \in CtorTypes, value \in {<<",">>}, span \in CtorSpans :
        Construct("Token4", Token4(type, value, span[1], span[2]))

NewToken5 ==
    \E lemonType \in CtorLemonTypes, type \in {OPERATOR}, value \in {<<",">>},
       span \in {<<0, 1>>} :
        Construct("Token5", Token5(lemonType, type, value, span[1], span[2]))

Equals ==
    \E t \in Ids, other \in Ids :
        Query([Call("equals", <<t, other>>, << >>, << >>)
                   EXCEPT !.ret = equals(heap[t], heap[other])])

LessThan ==
    \E t \in Ids, other \in Ids :
        Query([Call("lessThan", <<t, other>>, << >>, << >>)
                   EXCEPT !.ok = lessThan(heap[t], heap[other])])

NextToken ==
    \/ Return
    \/ NewToken0
    \/ NewToken1
    \/ NewToken2
    \/ NewToken3
    \/ NewToken4
    \/ NewToken5
    \/ Equals
    \/ LessThan

SpecToken == InitToken /\ [][NextToken]_vars

(***************************************************************************)
(* What the properties below are stated with, defined without the           *)
(* operations above.                                                        *)
(***************************************************************************)
\* whether the token object is an element of the list
InList(l, token) == \E i \in 1..Len(l) : l[i] = token

\* the 0-based position a token of the list is found at: its first occurrence
Position(l, token) ==
    (CHOOSE i \in 1..Len(l) : l[i] = token /\ \A j \in 1..(i - 1) : l[j] # token) - 1

\* the types for which Token::isWhitespace() is documented to hold
WhitespaceTypes == {SPACE, COMMENT}

\* the 1-based positions of the list whose token passes the test
Where(l, Test(_)) == {i \in 1..Len(l) : Test(heap[l[i]])}

Least(S) == CHOOSE i \in S : \A j \in S : i <= j

Greatest(S) == CHOOSE i \in S : \A j \in S : j <= i

\* the list between its first and its last token that passes the test
Between(l, Test(_)) ==
    IF Where(l, Test) = {} THEN << >>
    ELSE SubSeq(l, Least(Where(l, Test)), Greatest(Where(l, Test)))

\* the list from its first token that passes the test on
FromFirst(l, Test(_)) ==
    IF Where(l, Test) = {} THEN << >> ELSE SubSeq(l, Least(Where(l, Test)), Len(l))

\* the list up to its last token that passes the test
UpToLast(l, Test(_)) ==
    IF Where(l, Test) = {} THEN << >> ELSE SubSeq(l, 1, Greatest(Where(l, Test)))

(***************************************************************************)
(* C1.  A list obtained by lexing a query, with no mutating operation       *)
(* applied, detokenizes to exactly that query, quotes of string literals    *)
(* and comments included.  Checked under SpecLex, for every query of up to  *)
(* MaxSrcLen characters.                                                    *)
(***************************************************************************)
C1_RoundTrip ==
    (last.op = "detokenize" /\ ~edited) => last.text = src

\* a query with a string literal (whose value lacks the quotes) and a comment
C1_Witness ==
    /\ last.op = "detokenize"
    /\ ~edited
    /\ last.text = src
    /\ \E i \in 1..Len(list) :
            heap[list[i]].type = T_STRING /\ Len(heap[list[i]].value) < Len(src)
    /\ \E i \in 1..Len(list) : heap[list[i]].type \in {COMMENT, SPACE}

(***************************************************************************)
(* C2.  replace(startToken, endToken, ...), replace(oldToken, ...) and      *)
(* remove(startToken, endToken) called with a token that is not an element  *)
(* of the list leave the list as it was and return 0 or false.              *)
(***************************************************************************)
C2_NotFoundIsNoOp ==
    /\ (/\ last.op \in {"replaceRange", "replaceRangeToken"}
        /\ ~(InList(last.old, last.a[1]) /\ InList(last.old, last.a[2])))
       => (list = last.old /\ last.ret = 0)
    /\ (last.op = "replaceToken" /\ ~InList(last.old, last.a[1]))
       => (list = last.old /\ last.ok = FALSE)
    /\ (/\ last.op = "removeRange"
        /\ ~(InList(last.old, last.a[1]) /\ InList(last.old, last.a[2])))
       => (list = last.old /\ last.ok = FALSE)

\* remove() called with a first token of the list and a last token outside it
C2_Witness ==
    /\ last.op = "removeRange"
    /\ Len(last.old) >= 2
    /\ InList(last.old, last.a[1])
    /\ ~InList(last.old, last.a[2])
    /\ list = last.old
    /\ last.ok = FALSE

C4_ReplaceRange ==
    (/\ last.op \in {"replaceRange", "replaceRangeToken"}
     /\ InList(last.old, last.a[1])
     /\ InList(last.old, last.a[2])
     /\ Position(last.old, last.a[1]) <= Position(last.old, last.a[2]))
    => LET i == Position(last.old, last.a[1])
           j == Position(last.old, last.a[2])
           newTokens == IF last.op = "replaceRange" THEN last.l ELSE <<last.a[3]>>
       IN  /\ list = SubSeq(last.old, 1, i) \o newTokens
                     \o SubSeq(last.old, j + 2, Len(last.old))
           /\ last.ret = j - i + 1

\* two tokens replaced by two others, with a token left after the range
C4_Witness ==
    /\ last.op = "replaceRange"
    /\ Len(last.old) = 3
    /\ last.a[1] = last.old[1]
    /\ last.a[2] = last.old[2]
    /\ last.old[1] # last.old[2]
    /\ Len(last.l) = 2
    /\ last.ret = 2
    /\ list = last.l \o <<last.old[3]>>

(***************************************************************************)
(* C5.  remove(type) removes the first token of the type and returns true,  *)
(* every other token staying in place; with no token of the type it         *)
(* returns false and the list is unchanged.                                 *)
(***************************************************************************)
C5_RemoveType ==
    last.op = "removeType" =>
        LET OfType(t) == t.type = last.a[1]
            at == Where(last.old, OfType)
        IN  IF at = {} THEN list = last.old /\ last.ok = FALSE
            ELSE /\ list = SubSeq(last.old, 1, Least(at) - 1)
                           \o SubSeq(last.old, Least(at) + 1, Len(last.old))
                 /\ last.ok = TRUE

\* the first of two tokens of the type removed, the second one staying
C5_Witness ==
    /\ last.op = "removeType"
    /\ last.ok = TRUE
    /\ Len(last.old) = 3
    /\ heap[last.old[1]].type # last.a[1]
    /\ heap[last.old[2]].type = last.a[1]
    /\ heap[last.old[3]].type = last.a[1]
    /\ list = <<last.old[1], last.old[3]>>

(***************************************************************************)
(* C6.  trim() yields the part of the list between its first and its last   *)
(* token that is neither SPACE nor COMMENT, and the empty list when every   *)
(* token is one of the two.                                                 *)
(***************************************************************************)
C6_Trim ==
    last.op = "trim" =>
        LET Solid(t) == t.type \notin WhitespaceTypes
        IN  list = Between(last.old, Solid)

\* a comment trimmed at one end and a blank at the other
C6_Witness ==
    /\ last.op = "trim"
    /\ Len(last.old) = 3
    /\ heap[last.old[1]].type = COMMENT
    /\ heap[last.old[3]].type = SPACE
    /\ list = <<last.old[2]>>

(***************************************************************************)
(* C7.  As stated: the extended trimLeft(type, value), trimRight(type,      *)
(* value) and trim(type, value) take the white space off the end and then   *)
(* drop one adjacent token if it has the type and the value; a second such  *)
(* token at that end stays.                                                 *)
(***************************************************************************)
C7_DropsOneMatch ==
    last.op \in {"trimLeftExt", "trimRightExt", "trimExt"} =>
        LET Solid(t) == t.type \notin WhitespaceTypes
            Match(id) == heap[id].type = last.a[1] /\ heap[id].value = last.v
            Left(l) == LET w == FromFirst(l, Solid)
                       IN  IF Len(w) > 0 /\ Match(w[1]) THEN Tail(w) ELSE w
            Right(l) == LET w == UpToLast(l, Solid)
                        IN  IF Len(w) > 0 /\ Match(w[Len(w)])
                            THEN SubSeq(w, 1, Len(w) - 1)
                            ELSE w
        IN  list = (IF last.op = "trimLeftExt" THEN Left(last.old)
                    ELSE IF last.op = "trimRightExt" THEN Right(last.old)
                    ELSE Right(Left(last.old)))

(***************************************************************************)
(* C7, amended.  The extended trims take off the respective end every token *)
(* that is white space or has both the given type and the given value, up   *)
(* to the first token that is neither: several such tokens at one end all   *)
(* go, also with white space between them.                                  *)
(***************************************************************************)
C7_DropsAllMatches ==
    last.op \in {"trimLeftExt", "trimRightExt", "trimExt"} =>
        LET Kept(t) == /\ t.type \notin WhitespaceTypes
                       /\ ~(t.type = last.a[1] /\ t.value = last.v)
        IN  list = (IF last.op = "trimLeftExt" THEN FromFirst(last.old, Kept)
                    ELSE IF last.op = "trimRightExt" THEN UpToLast(last.old, Kept)
                    ELSE Between(last.old, Kept))

\* two tokens of the type and value at the left end, both taken off
C7_Witness ==
    /\ last.op = "trimLeftExt"
    /\ Len(last.old) = 3
    /\ last.old[1] # last.old[2]
    /\ \A i \in 1..2 : /\ heap[last.old[i]].type = last.a[1]
                       /\ heap[last.old[i]].value = last.v
    /\ list = <<last.old[3]>>

(***************************************************************************)
(* C8.  As stated: filterWhiteSpaces() returns the tokens of the list for   *)
(* which isWhitespace() holds, in their order, and leaves the list alone.   *)
(***************************************************************************)
C8_ReturnsWhitespace ==
    last.op = "filterWhiteSpaces" =>
        /\ last.out = SelectSeq(last.old, LAMBDA id : heap[id].type \in WhitespaceTypes)
        /\ list = last.old

(***************************************************************************)
(* C8, amended.  filterWhiteSpaces() returns the tokens of the list for     *)
(* which isWhitespace() does not hold (neither SPACE nor COMMENT), in their *)
(* order, and leaves the list it is called on alone.                        *)
(***************************************************************************)
C8_ReturnsNonWhitespace ==
    last.op = "filterWhiteSpaces" =>
        /\ last.out = SelectSeq(last.old, LAMBDA id : heap[id].type \notin WhitespaceTypes)
        /\ list = last.old

\* a list of a name between a blank and a comment: the name alone is returned
C8_Witness ==
    /\ last.op = "filterWhiteSpaces"
    /\ Len(list) = 3
    /\ heap[list[1]].type = SPACE
    /\ heap[list[2]].type = T_OTHER
    /\ heap[list[3]].type = COMMENT
    /\ last.out = <<list[2]>>

(***************************************************************************)
(* C9.  atCursorPosition(pos) returns a token of the list with              *)
(* start <= pos <= end, and null when no token of the list has such a span; *)
(* with spans [0,2] and [3,5], position 2 gives the first token, position 3 *)
(* the second, a position past 5 null.                                      *)
(***************************************************************************)
C9_AtCursorPosition ==
    last.op = "atCursorPosition" =>
        LET pos == last.a[1]
            Spans(id) == heap[id].start <= pos /\ pos <= heap[id].end
            adjacent == /\ Len(last.old) = 2
                        /\ heap[last.old[1]].start = 0 /\ heap[last.old[1]].end = 2
                        /\ heap[last.old[2]].start = 3 /\ heap[last.old[2]].end = 5
        IN  /\ last.ret # 0 => (InList(last.old, last.ret) /\ Spans(last.ret))
            /\ last.ret = 0 => \A i \in 1..Len(last.old) : ~Spans(last.old[i])
            /\ (adjacent /\ pos = 2) => last.ret = last.old[1]
            /\ (adjacent /\ pos = 3) => last.ret = last.old[2]
            /\ (adjacent /\ pos > 5) => last.ret = 0
            /\ list = last.old

\* the position of the last character of the first of two adjacent tokens
C9_Witness ==
    /\ last.op = "atCursorPosition"
    /\ Len(last.old) = 2
    /\ heap[last.old[1]].start = 0 /\ heap[last.old[1]].end = 2
    /\ heap[last.old[2]].start = 3 /\ heap[last.old[2]].end = 5
    /\ last.a[1] = 2
    /\ last.ret = last.old[1]

(***************************************************************************)
(* C10.  isDbObjectType() is true exactly for OTHER, CTX_COLUMN, CTX_TABLE, *)
(* CTX_DATABASE, CTX_INDEX, CTX_TRIGGER and CTX_VIEW, which are exactly the *)
(* types whose code has the bit 0x1000 set.                                 *)
(***************************************************************************)
DbObjectTypes ==
    {T_OTHER, CTX_COLUMN, CTX_TABLE, CTX_DATABASE, CTX_INDEX, CTX_TRIGGER, CTX_VIEW}

C10_IsDbObjectType ==
    last.op = "isDbObjectType" =>
        /\ last.ok = (last.a[1] \in DbObjectTypes)
        /\ (last.a[1] \in DbObjectTypes) = (last.a[1] \div 4096 = 1)

\* the last of the seven types, found to be one
C10_Witness ==
    /\ last.op = "isDbObjectType"
    /\ last.a[1] = CTX_VIEW
    /\ last.ok = TRUE

(***************************************************************************)
(* C11.  Two tokens compare equal with operator== if and only if their      *)
(* type, value, start and end are equal; the Lemon token ID plays no part.  *)
(* Checked under SpecToken.                                                 *)
(***************************************************************************)
C11_Equality ==
    last.op = "equals" =>
        LET t == heap[last.a[1]]
            other == heap[last.a[2]]
        IN  /\ last.ret \in {0, 1}
            /\ (last.ret = 1) = (/\ t.type = other.type
                                 /\ t.value = other.value
                                 /\ t.start = other.start
                                 /\ t.end = other.end)

\* two token objects that differ in their Lemon token ID alone compare equal
C11_Witness ==
    /\ last.op = "equals"
    /\ last.a[1] # last.a[2]
    /\ heap[last.a[1]].lemonType # heap[last.a[2]].lemonType
    /\ heap[last.a[1]].start >= 0
    /\ last.ret = 1

(***************************************************************************)
(* C12.  a < b if and only if a.start < b.start, or a.start = b.start and   *)
(* a.end < b.end; so no token is less than itself, the relation is          *)
(* transitive, and two tokens of the same start and end are ordered neither *)
(* way, whatever their type, value and Lemon token ID.  Checked under       *)
(* SpecToken.                                                               *)
(***************************************************************************)
C12_Ordering ==
    /\ last.op = "lessThan" =>
           LET t == heap[last.a[1]]
               other == heap[last.a[2]]
           IN  last.ok = (\/ t.start < other.start
                          \/ (t.start = other.start /\ t.end < other.end))
    /\ \A a \in Ids : ~lessThan(heap[a], heap[a])
    /\ \A a \in Ids, b \in Ids, c \in Ids :
           (lessThan(heap[a], heap[b]) /\ lessThan(heap[b], heap[c]))
           => lessThan(heap[a], heap[c])
    /\ \A a \in Ids, b \in Ids :
           (heap[a].start = heap[b].start /\ heap[a].end = heap[b].end)
           => (~lessThan(heap[a], heap[b]) /\ ~lessThan(heap[b], heap[a]))

\* equal starts, the end decides; the two tokens differ in type as well
C12_Witness ==
    /\ last.op = "lessThan"
    /\ heap[last.a[1]].start = heap[last.a[2]].start
    /\ heap[last.a[1]].end < heap[last.a[2]].end
    /\ heap[last.a[1]].type # heap[last.a[2]].type
    /\ last.ok = TRUE
    /\ Len(heap) = 3

Matching ==
    {i \in 0..(Len(list) - 1) :
        LET t == heap[list[i + 1]]
        IN  /\ last.c.by \in {"type", "typeValue"} => t.type = last.c.type
            /\ last.c.by \in {"typeValue", "value"} =>
                   IF last.c.caseSensitivity = "CaseSensitive"
                   THEN t.value = last.c.value
                   ELSE toLowerAll(t.value) = toLowerAll(last.c.value)}

C13_Lookups ==
    /\ last.op = "indexOf" =>
           last.ret = IF Matching = {} THEN -1 ELSE Least(Matching)
    /\ last.op = "lastIndexOf" =>
           last.ret = IF Matching = {} THEN -1 ELSE Greatest(Matching)
    /\ last.op = "find" =>
           /\ (last.ret = 0) = (indexOfBy(heap, list, last.c) = -1)
           /\ last.ret # 0 => last.ret = list[indexOfBy(heap, list, last.c) + 1]
           /\ last.ret = IF Matching = {} THEN 0 ELSE list[Least(Matching) + 1]
    /\ last.op = "findLast" =>
           /\ (last.ret = 0) = (lastIndexOfBy(heap, list, last.c) = -1)
           /\ last.ret # 0 => last.ret = list[lastIndexOfBy(heap, list, last.c) + 1]
           /\ last.ret = IF Matching = {} THEN 0 ELSE list[Greatest(Matching) + 1]

\* two commas around another token: the last comma is found, by type and value
C13_Witness ==
    /\ last.op = "findLast"
    /\ last.c.by = "typeValue"
    /\ Len(list) = 3
    /\ Matching = {0, 2}
    /\ last.ret = list[3]
    /\ list[1] # list[3]

(***************************************************************************)
(* C14.  For a valid pos, mid(pos, length) returns a new list of the same   *)
(* token objects as positions [pos, pos + length) of the list, in the same  *)
(* order, and mid(pos, -1) those from pos to the end; the list it is called *)
(* on is not modified.                                                      *)
(***************************************************************************)
C14_Mid ==
    last.op = "mid" =>
        LET pos == last.a[1]
            length == IF last.a[2] = -1 THEN Len(last.old) - pos ELSE last.a[2]
        IN  /\ Len(last.out) = length
            /\ \A k \in 0..(length - 1) : last.out[k + 1] = last.old[pos + k + 1]
            /\ list = last.old

\* one token taken from the middle of a list of three
C14_Witness ==
    /\ last.op = "mid"
    /\ Len(list) = 3
    /\ last.a = <<1, 1>>
    /\ last.out = <<list[2]>>

(***************************************************************************)
(* C17.  A lookup by token goes by the identity of the token object, not by *)
(* its value: indexOf(token) gives the position of that very object, or -1  *)
(* when the object is not in the list, whatever equal tokens the list       *)
(* holds; replace(oldToken, ...) replaces at that position, or returns      *)
(* false and leaves the list as it was.                                     *)
(***************************************************************************)
C17_Identity ==
    /\ last.op = "indexOfToken" =>
           /\ last.ret = IF InList(list, last.a[1]) THEN Position(list, last.a[1]) ELSE -1
           /\ last.ret # -1 => list[last.ret + 1] = last.a[1]
    /\ last.op = "replaceToken" =>
           IF InList(last.old, last.a[1])
           THEN LET idx == Position(last.old, last.a[1])
                IN  /\ last.ok = TRUE
                    /\ list = SubSeq(last.old, 1, idx) \o last.l
                              \o SubSeq(last.old, idx + 2, Len(last.old))
           ELSE last.ok = FALSE /\ list = last.old

\* two token objects of equal type, value, start and end
ValueEqual(t, other) ==
    /\ heap[t].type = heap[other].type
    /\ heap[t].value = heap[other].value
    /\ heap[t].start = heap[other].start
    /\ heap[t].end = heap[other].end

\* the list holds an equal token before the one asked for
C17_Witness ==
    /\ last.op = "indexOfToken"
    /\ Len(list) >= 2
    /\ list[1] # last.a[1]
    /\ ValueEqual(list[1], last.a[1])
    /\ last.ret >= 1

\* an equal token that is not in the list: replace() leaves the list alone
C17_WitnessAbsent ==
    /\ last.op = "replaceToken"
    /\ ~InList(last.old, last.a[1])
    /\ \E i \in 1..Len(last.old), j \in 1..Len(last.old) :
           /\ last.old[i] # last.old[j]
           /\ ValueEqual(last.old[i], last.a[1])
           /\ ValueEqual(last.old[j], last.a[1])
    /\ last.ok = FALSE
    /\ list = last.old

(***************************************************************************)
(* C15.  No TokenList operation changes a token object: its type, value,    *)
(* start, end and Lemon token ID stay as constructed; and a non-const       *)
(* operation on one list changes neither the content nor the order of       *)
(* another list that shares token objects with it, such as one obtained     *)
(* with mid() or filter().  Checked under SpecShare, step by step.          *)
(***************************************************************************)
Mutations == {"insert", "replaceToken", "removeType", "trim"}

====
